---- MODULE Spec2Model ----
(***************************************************************************)
(* Model of wm-feature-flag-client (src/src/featureFlagStorage.ts): the    *)
(* FeatureFlagStorage wrapper and the FeatureFlagClient built on it.       *)
(*                                                                         *)
(* JavaScript runs one job at a time, so a handler runs atomically from    *)
(* the call (or the resumption of an await) to its next await.  Every      *)
(* action below is one such run.  A call that is suspended on an await is  *)
(* a record of the sequence calls, whose pc says where it is suspended.    *)
(* Values that JavaScript leaves undefined are the string Undefined (for   *)
(* configs), the empty string (for identifiers, urls and etags, of which   *)
(* the code only asks whether they are falsy) and NoBlob (for stored       *)
(* text).                                                                  *)
(***************************************************************************)
EXTENDS Integers, Sequences, FiniteSets, TLC

(***************************************************************************)
(* Bounds of the model.                                                    *)
(***************************************************************************)
MaxPending == 1    \* public calls (queryFeatureFlag, queryAllFeatureFlags) in flight at once
MaxCandidates == 3 \* targeting configs in a list handed to getTargetingConfig from outside
MaxUuids == 2      \* identifiers uuidv4 hands out in one behaviour

(***************************************************************************)
(* Program constants.                                                      *)
(***************************************************************************)
configRefreshIntervalDefault == 86400000

APP_USER_ID == "appUserId"
FEATURE_FLAG_CONFIG == "featureFlagConfig"
FEATURE_FLAG_USER_ID == "featureFlagUserId"
FEATURE_FLAG_CONFIG_ETAG == "featureFlagConfigETag"

Undefined == "undefined"   \* an absent config (this.config, response.data, the config argument)
NoInterval == -1           \* context.configRefreshInterval is absent
NoBlob == <<>>             \* Storage.getItem found nothing under the key

(***************************************************************************)
(* Time, in milliseconds.  The clock only moves forward, to any later      *)
(* instant of the set.                                                     *)
(***************************************************************************)
Instants == {0, 300001, 86400001}
ProbeInstants == {0, 1, 3600, 3601, 3600000, 3600001}
ProbeIntervals == {0, 3600, 3600000}

(***************************************************************************)
(* Context attribute values: a string, an array of strings, or absent.     *)
(***************************************************************************)
Str(s) == [kind |-> "string", vals |-> <<s>>]
Arr(q) == [kind |-> "array", vals |-> q]
Absent == [kind |-> "absent", vals |-> <<>>]

Ctx(uid, url, interval, platform, brand) ==
  [present |-> TRUE, userId |-> uid, configUrl |-> url, configRefreshInterval |-> interval,
   Platform |-> platform, Brand |-> brand]

NoContext ==
  [present |-> FALSE, userId |-> "", configUrl |-> "", configRefreshInterval |-> NoInterval,
   Platform |-> Absent, Brand |-> Absent]

\* the contexts of tests/featureFlagClient.test.js, and one without a user id
ContextA == Ctx("123", "testurl", 300000, Arr(<<"iOS">>), Arr(<<"BrandA">>))
ContextB == Ctx("123", "testurl", NoInterval, Arr(<<"Windows">>), Arr(<<"BrandB">>))
ContextNoConfigUrl == Ctx("123", "", NoInterval, Absent, Absent)
ContextAnonymous == Ctx("", "testurl", 0, Str("iOS"), Absent)

ContextArgs == {NoContext, ContextA, ContextB, ContextNoConfigUrl, ContextAnonymous}

VARIABLES
  alive,              \* a FeatureFlagClient has been constructed
  context,            \* this.context
  config,             \* this.config: the name of a config, or Undefined
  featureFlagUserId,  \* this.featureFlagUserId
  initialized,        \* this.initialized
  configCacheStart,   \* this.configCacheStart.getTime()
  storageAvailable,   \* typeof Storage !== 'undefined' on this host
  store,              \* what the Storage object holds under each key
  now,                \* new Date().getTime()
  calls,              \* the public calls in flight, each suspended on an await
  hmacSeed,           \* which keyed hash function crypto computes
  uuids,              \* how many identifiers uuidv4 has handed out
  lastFetch,          \* when the client last completed a successful fetch (-1: never)
  lastSet,            \* what the last run passed to storage.set, by key
  inits,              \* the runs of init the last run brought to their end
  done,               \* the call the last run completed, with what it gave its caller
  ctor,               \* the constructor call the last run made: its arguments and its end
  probe,              \* the call of a synchronous method the last run made from outside
  args                \* the arguments an outside caller holds for such a method

vars == <<alive, context, config, featureFlagUserId, initialized, configCacheStart,
          storageAvailable, store, now, calls, hmacSeed, uuids, lastFetch, lastSet,
          inits, done, ctor, probe, args>>

clientVars == <<alive, context, config, featureFlagUserId, initialized, configCacheStart>>
envVars == <<storageAvailable, store, hmacSeed, uuids, args>>

(***************************************************************************)
(* FeatureFlagStorage.  On a host without Storage, get returns nothing     *)
(* and set does nothing.                                                   *)
(***************************************************************************)
Nothing(key) == IF key = FEATURE_FLAG_CONFIG THEN NoBlob ELSE ""

EmptyStore == [k \in {APP_USER_ID, FEATURE_FLAG_CONFIG, FEATURE_FLAG_USER_ID,
                      FEATURE_FLAG_CONFIG_ETAG} |-> Nothing(k)]

StorageGet(w, key) == IF ~w.storageAvailable THEN Nothing(key) ELSE w.store[key]

StorageSet(w, key, value) ==
  LET logged == [w EXCEPT !.lastSet[key] = value]
  IN  IF ~w.storageAvailable THEN logged ELSE [logged EXCEPT !.store[key] = value]

(***************************************************************************)
(* JSON.stringify, the string Storage.setItem makes of its argument, and   *)
(* JSON.parse.  A config is held by name; its text is <<"json", name>>.    *)
(* JSON.stringify(undefined) is undefined, which setItem stores as the     *)
(* text "undefined", which JSON.parse rejects.                             *)
(***************************************************************************)
JSONstringify(c) == IF c = Undefined THEN <<Undefined>> ELSE <<"json", c>>
ToStoredText(v) == IF v = <<Undefined>> THEN <<"text", "undefined">> ELSE v
JSONparseThrows(text) == text[1] # "json"
\* a variant that loses what it parsed
JSONparseLost(text) == Undefined
JSONparse(text) == text[2]

(***************************************************************************)
(* The bucket index.  A digest is held by its last four hex digits; the    *)
(* four digests end in 0x32 = 50, 0xc7 = 199 (index 99), 0x00 = 0 and      *)
(* 0x95 = 149 (index 49).                                                  *)
(***************************************************************************)
HexDigests == <<<<10, 11, 3, 2>>, <<15, 15, 12, 7>>, <<1, 2, 0, 0>>, <<0, 0, 9, 5>>>>

SliceLast(q, n) == IF Len(q) <= n THEN q ELSE SubSeq(q, Len(q) - n + 1, Len(q))

RECURSIVE ParseDigits(_, _)
ParseDigits(q, radix) ==
  IF q = <<>> THEN 0 ELSE ParseDigits(SubSeq(q, 1, Len(q) - 1), radix) * radix + q[Len(q)]

RECURSIVE ToDecimalString(_)
ToDecimalString(n) == IF n < 10 THEN <<n>> ELSE Append(ToDecimalString(n \div 10), n % 10)

\* a variant that keeps all the decimal digits
getUserFeatureIndexWhole(hash) ==
  LET hashSegment == ParseDigits(SliceLast(hash, 2), 16)
  IN  ToDecimalString(hashSegment)

getUserFeatureIndex(hash) ==
  LET hashSegment == ParseDigits(SliceLast(hash, 2), 16)
  IN  SliceLast(ToDecimalString(hashSegment), 2)

\* parseInt(rolloutValue, 10) for the rollout values the configs use; -1 stands for NaN
ParseRollout(s) ==
  CASE s = "0" -> 0 [] s = "50" -> 50 [] s = "100" -> 100 [] OTHER -> -1

IsNaN(n) == n < 0

(***************************************************************************)
(* Configs.  A targeting config without criteria has hasCriteria FALSE, a  *)
(* field it does not carry is the empty string.                            *)
(***************************************************************************)
Criterion(name, values) == [targetFieldName |-> name, hasValues |-> TRUE, targetFieldValues |-> values]

Targeting(priority, rollout, stickiness, criteria) ==
  [targetPriority |-> priority, rolloutValue |-> rollout, stickinessProperty |-> stickiness,
   hasCriteria |-> TRUE, targetCriteria |-> criteria]

TargetingNoCriteria(priority, rollout, stickiness) ==
  [targetPriority |-> priority, rolloutValue |-> rollout, stickinessProperty |-> stickiness,
   hasCriteria |-> FALSE, targetCriteria |-> <<>>]

Flag(name, id, targeting) == [flagName |-> name, flagId |-> id, targeting |-> targeting]

\* the config the remote source serves
RemoteFlags ==
  << Flag("feature-A", "salt-A",
          << Targeting(2, "50", "ffUserId", <<Criterion("Brand", <<"BrandB">>)>>),
             Targeting(1, "100", "", <<Criterion("Platform", <<"iOS">>),
                                       Criterion("Brand", <<"BrandA", "BrandC">>)>>) >>),
     Flag("feature-B", "salt-B",
          << Targeting(1, "50", "ffUserId", <<Criterion("Platform", <<"iOS", "Windows">>)>>) >>) >>

\* an older version of it, as a previous run may have left it in storage
StoredFlags ==
  << Flag("feature-A", "salt-A",
          << Targeting(1, "50", "", <<Criterion("Platform", <<"iOS", "Windows">>)>>) >>) >>

\* a config file handed to the constructor
LocalFlags ==
  << Flag("feature-A", "salt-A",
          << Targeting(1, "100", "", <<Criterion("Platform", <<"iOS">>)>>),
             TargetingNoCriteria(1, "100", "ffUserId") >>),
     Flag("feature-B", "salt-B", <<>>) >>

ConfigNames == {"remote", "stored", "local", "noflags"}

HasFlags(c) == c \in {"remote", "stored", "local"}

FlagsOf(c) ==
  CASE c = "remote" -> RemoteFlags
    [] c = "stored" -> StoredFlags
    [] c = "local" -> LocalFlags
    [] OTHER -> <<>>

FlagNames == {"feature-A", "feature-B", "feature-X"}

(***************************************************************************)
(* Array.prototype.sort as V8 runs it for fewer than 64 elements (the      *)
(* repository builds and tests on Node 12): the leading run is counted,    *)
(* reversed when it descends, and the rest is inserted by binary search.   *)
(***************************************************************************)
ComparePriority(a, b) == IF a.targetPriority > b.targetPriority THEN 1 ELSE -1

Reverse(q) == [i \in 1..Len(q) |-> q[Len(q) + 1 - i]]

RECURSIVE RunLength(_, _, _)
RunLength(a, idx, descending) ==
  IF idx > Len(a) THEN idx - 1
  ELSE LET order == ComparePriority(a[idx], a[idx - 1])
       IN  IF descending
           THEN IF order >= 0 THEN idx - 1 ELSE RunLength(a, idx + 1, descending)
           ELSE IF order < 0 THEN idx - 1 ELSE RunLength(a, idx + 1, descending)

CountAndMakeRun(a) ==
  LET descending == ComparePriority(a[2], a[1]) < 0
      n == RunLength(a, 3, descending)
  IN  [run |-> n,
       a |-> IF descending THEN Reverse(SubSeq(a, 1, n)) \o SubSeq(a, n + 1, Len(a)) ELSE a]

RECURSIVE BinarySearch(_, _, _, _)
BinarySearch(a, pivot, left, right) ==
  IF left >= right THEN left
  ELSE LET mid == left + ((right - left) \div 2)
       IN  IF ComparePriority(pivot, a[mid]) < 0
           THEN BinarySearch(a, pivot, left, mid)
           ELSE BinarySearch(a, pivot, mid + 1, right)

RECURSIVE BinaryInsertionSort(_, _)
BinaryInsertionSort(a, start) ==
  IF start > Len(a) THEN a
  ELSE LET pivot == a[start]
           left == BinarySearch(a, pivot, 1, start)
           moved == SubSeq(a, 1, left - 1) \o <<pivot>> \o SubSeq(a, left, start - 1)
                    \o SubSeq(a, start + 1, Len(a))
       IN  BinaryInsertionSort(moved, start + 1)

\* a variant that leaves the list in the order it came in
SortByPriorityKept(a) == a

SortByPriority(a) ==
  IF Len(a) < 2 THEN a
  ELSE LET r == CountAndMakeRun(a) IN BinaryInsertionSort(r.a, r.run + 1)

(***************************************************************************)
(* getTargetingConfig                                                      *)
(***************************************************************************)
\* a variant whose default lets everybody in
DefaultTargetingConfigOpen == TargetingNoCriteria(1, "100", "")

DefaultTargetingConfig == TargetingNoCriteria(1, "0", "")

\* context[targetFieldName]
ContextField(ctx, name) ==
  CASE name = "Platform" -> ctx.Platform
    [] name = "Brand" -> ctx.Brand
    [] name = "userId" -> IF ctx.userId = "" THEN Absent ELSE Str(ctx.userId)
    [] name = "configUrl" -> IF ctx.configUrl = "" THEN Absent ELSE Str(ctx.configUrl)
    [] OTHER -> Absent

\* !context[targetFieldName]: an absent field or an empty string; an array is truthy
FieldFalsy(v) == v.kind = "absent" \/ (v.kind = "string" /\ v.vals[1] = "")

TargetFieldFoundInContext(ctx, c) ==
  LET v == ContextField(ctx, c.targetFieldName)
  IN  \E i \in 1..Len(c.targetFieldValues) :
        \/ v.kind = "string" /\ v.vals[1] = c.targetFieldValues[i]
        \/ v.kind = "array" /\ \E j \in 1..Len(v.vals) : v.vals[j] = c.targetFieldValues[i]

RECURSIVE CriteriaLoop(_, _, _, _)
CriteriaLoop(ctx, targetFields, i, matchDetected) ==
  IF i > Len(targetFields) THEN matchDetected
  ELSE LET c == targetFields[i]
       IN  IF c.targetFieldName = "" \/ ~c.hasValues \/ FieldFalsy(ContextField(ctx, c.targetFieldName))
           THEN FALSE
           ELSE IF ~TargetFieldFoundInContext(ctx, c) THEN FALSE
                ELSE CriteriaLoop(ctx, targetFields, i + 1, TRUE)

\* a variant that takes a targeting config without criteria for one that accepts all
MatchesContextWildcard(ctx, targetConfig) ==
  IF ~targetConfig.hasCriteria \/ targetConfig.targetCriteria = <<>> THEN TRUE
  ELSE CriteriaLoop(ctx, targetConfig.targetCriteria, 1, FALSE)

MatchesContext(ctx, targetConfig) ==
  IF ~targetConfig.hasCriteria THEN FALSE
  ELSE CriteriaLoop(ctx, targetConfig.targetCriteria, 1, FALSE)

RECURSIVE FindMatch(_, _, _)
FindMatch(ctx, sorted, i) ==
  IF i > Len(sorted) THEN 0
  ELSE IF MatchesContext(ctx, sorted[i]) THEN i ELSE FindMatch(ctx, sorted, i + 1)

getTargetingConfig(ctx, targetingConfigs) ==
  LET targetConfigsSorted == SortByPriority(targetingConfigs)
      found == FindMatch(ctx, targetConfigsSorted, 1)
  IN  IF found = 0 THEN DefaultTargetingConfig ELSE targetConfigsSorted[found]

(***************************************************************************)
(* The client and its storage as one value, which the operators below      *)
(* take and return: a handler's run is their composition.                  *)
(***************************************************************************)
World ==
  [context |-> context, config |-> config, featureFlagUserId |-> featureFlagUserId,
   initialized |-> initialized, storageAvailable |-> storageAvailable, store |-> store,
   uuids |-> uuids, lastSet |-> EmptyStore, lastFetch |-> lastFetch]

SetWorld(w) ==
  /\ context' = w.context
  /\ config' = w.config
  /\ featureFlagUserId' = w.featureFlagUserId
  /\ initialized' = w.initialized
  /\ store' = w.store
  /\ uuids' = w.uuids
  /\ lastSet' = w.lastSet
  /\ lastFetch' = w.lastFetch
  /\ UNCHANGED <<alive, configCacheStart, storageAvailable, hmacSeed, args>>

\* uuidv4(): a new identifier at every call
Uuids == <<"uuid-1", "uuid-2", "uuid-3", "uuid-4", "uuid-5", "uuid-6">>
createUserId(w) == Uuids[w.uuids + 1]

(***************************************************************************)
(* checkConfigCacheExpiry                                                  *)
(***************************************************************************)
\* a variant that compares with >=
checkConfigCacheExpiryInclusive(interval) ==
  LET cacheTimeElapsed == now - configCacheStart IN cacheTimeElapsed >= interval

checkConfigCacheExpiry(interval) ==
  LET cacheTimeElapsed == now - configCacheStart
  IN  cacheTimeElapsed > interval

\* init: the user-defined refresh interval, or the default if none is provided
RefreshInterval(ctx) ==
  IF ctx.configRefreshInterval # NoInterval /\ ctx.configRefreshInterval # 0
  THEN ctx.configRefreshInterval
  ELSE configRefreshIntervalDefault

(***************************************************************************)
(* init, in the three runs an await can split it into.  err is what the    *)
(* try block threw ("" when nothing).                                      *)
(***************************************************************************)
\* the catch block of init: the error is logged and init goes on
InitCatch(err) == [raised |-> FALSE, logged |-> err]

\* lines 138-157: from the call to the request loadConfig sends
InitBegin(w) ==
  LET cacheIsExpired == checkConfigCacheExpiry(RefreshInterval(w.context))
      configFromStorage == StorageGet(w, FEATURE_FLAG_CONFIG)
      storedETag == StorageGet(w, FEATURE_FLAG_CONFIG_ETAG)
      quiet == [w |-> w, fetch |-> FALSE, err |-> "", prevETag |-> "", expired |-> cacheIsExpired]
  IN  IF ~(w.config = Undefined \/ cacheIsExpired) THEN quiet
      ELSE IF w.context.configUrl = ""
        THEN [quiet EXCEPT !.err = "Failed to load config file - no config url provided."]
      ELSE IF configFromStorage # NoBlob /\ JSONparseThrows(configFromStorage)
        THEN [quiet EXCEPT !.err = "SyntaxError"]
      ELSE LET w1 == IF configFromStorage # NoBlob
                     THEN [w EXCEPT !.config = JSONparse(configFromStorage)]
                     ELSE w
           IN  IF configFromStorage = NoBlob \/ cacheIsExpired
               THEN [quiet EXCEPT !.w = w1, !.fetch = TRUE,
                                  !.prevETag = IF storedETag = "" THEN "-1" ELSE storedETag]
               ELSE [quiet EXCEPT !.w = w1]

\* a variant that drops the config it holds when the request fails
InitAdoptDropping(w, response) ==
  IF ~response.ok THEN [w |-> [w EXCEPT !.config = Undefined], err |-> "Failed to retrieve config file."]
  ELSE LET w1 == [w EXCEPT !.config = IF response.data # Undefined THEN response.data ELSE w.config]
           w2 == IF response.etag # "" THEN StorageSet(w1, FEATURE_FLAG_CONFIG_ETAG, response.etag) ELSE w1
           w3 == StorageSet(w2, FEATURE_FLAG_CONFIG, ToStoredText(JSONstringify(w1.config)))
       IN  [w |-> [w3 EXCEPT !.lastFetch = now], err |-> ""]

\* a variant that never stores the etag of a response
InitAdoptWithoutETag(w, response) ==
  IF ~response.ok THEN [w |-> w, err |-> "Failed to retrieve config file."]
  ELSE LET w1 == [w EXCEPT !.config = IF response.data # Undefined THEN response.data ELSE w.config]
           w3 == StorageSet(w1, FEATURE_FLAG_CONFIG, ToStoredText(JSONstringify(w1.config)))
       IN  [w |-> [w3 EXCEPT !.lastFetch = now], err |-> ""]

\* a variant that persists the body of the response, not the config it ends up with
InitAdoptPersistingBody(w, response) ==
  IF ~response.ok THEN [w |-> w, err |-> "Failed to retrieve config file."]
  ELSE LET w1 == [w EXCEPT !.config = IF response.data # Undefined THEN response.data ELSE w.config]
           w2 == IF response.etag # "" THEN StorageSet(w1, FEATURE_FLAG_CONFIG_ETAG, response.etag) ELSE w1
           w3 == StorageSet(w2, FEATURE_FLAG_CONFIG, ToStoredText(JSONstringify(response.data)))
       IN  [w |-> [w3 EXCEPT !.lastFetch = now], err |-> ""]

\* lines 157-162: from the response of loadConfig to the end of the try block
InitAdopt(w, response) ==
  IF ~response.ok THEN [w |-> w, err |-> "Failed to retrieve config file."]
  ELSE LET w1 == [w EXCEPT !.config = IF response.data # Undefined THEN response.data ELSE w.config]
           w2 == IF response.etag # "" THEN StorageSet(w1, FEATURE_FLAG_CONFIG_ETAG, response.etag) ELSE w1
           w3 == StorageSet(w2, FEATURE_FLAG_CONFIG, ToStoredText(JSONstringify(w1.config)))
       IN  [w |-> [w3 EXCEPT !.lastFetch = now], err |-> ""]

\* a variant that does not look into storage before it creates an id
InitFeatureFlagUserIdUnchecked(w, snapFeatureFlagUserId) ==
  IF snapFeatureFlagUserId = ""
  THEN LET id == createUserId(w)
       IN  StorageSet([w EXCEPT !.featureFlagUserId = id, !.uuids = @ + 1], FEATURE_FLAG_USER_ID, id)
  ELSE w

\* lines 180-186: ensure there is a featureFlagUserId
InitFeatureFlagUserId(w, snapFeatureFlagUserId) ==
  IF snapFeatureFlagUserId = "" /\ StorageGet(w, FEATURE_FLAG_USER_ID) = ""
  THEN LET id == createUserId(w)
       IN  StorageSet([w EXCEPT !.featureFlagUserId = id, !.uuids = @ + 1], FEATURE_FLAG_USER_ID, id)
  ELSE w

\* a variant that does the identity steps in every init
InitIdentityEveryTime(w, snap) ==
  LET fromStorage == StorageGet(w, APP_USER_ID)
      w1 == IF snap.userId = ""
            THEN IF fromStorage # "" THEN [w EXCEPT !.context.userId = fromStorage] ELSE w
            ELSE StorageSet(w, APP_USER_ID, snap.userId)
      w2 == InitFeatureFlagUserId(w1, snap.featureFlagUserId)
  IN  [w2 EXCEPT !.initialized = TRUE]

\* lines 168-188, with the values init read from this and this.context when it started
InitIdentity(w, snap) ==
  IF snap.initialized THEN w
  ELSE LET fromStorage == StorageGet(w, APP_USER_ID)
           w1 == IF snap.userId = ""
                 THEN IF fromStorage # "" THEN [w EXCEPT !.context.userId = fromStorage] ELSE w
                 ELSE StorageSet(w, APP_USER_ID, snap.userId)
           w2 == InitFeatureFlagUserId(w1, snap.featureFlagUserId)
       IN  [w2 EXCEPT !.initialized = TRUE]

\* what axios gives loadConfig: a failure, a config with its etag, or no body and no etag
Responses ==
  { [ok |-> FALSE, data |-> Undefined, etag |-> ""],
    [ok |-> TRUE, data |-> "remote", etag |-> "etag-1"],
    [ok |-> TRUE, data |-> Undefined, etag |-> ""] }

(***************************************************************************)
(* createHash.  crypto's HMAC-SHA256 is one fixed function of the          *)
(* identifier and the salt; hmacSeed says which of the functions below.    *)
(***************************************************************************)
Identifiers == <<"123", "456", "uuid-0">> \o Uuids

RECURSIVE IndexIn(_, _, _)
IndexIn(q, x, i) == IF i > Len(q) THEN 0 ELSE IF q[i] = x THEN i ELSE IndexIn(q, x, i + 1)

\* a variant whose digest also depends on when it is computed
createHashTimed(userId, salt) ==
  LET mix == IndexIn(Identifiers, userId, 1) + (IF salt = "salt-A" THEN 0 ELSE 1) + hmacSeed
            + (IF now > 0 THEN 1 ELSE 0)
  IN  HexDigests[(mix % Len(HexDigests)) + 1]

createHash(userId, salt) ==
  LET mix == IndexIn(Identifiers, userId, 1) + (IF salt = "salt-A" THEN 0 ELSE 1) + hmacSeed
  IN  HexDigests[(mix % Len(HexDigests)) + 1]

(***************************************************************************)
(* A call in flight.  While its init is suspended on loadConfig, snap is    *)
(* what init read from this and this.context when it started and prevETag  *)
(* the token of its request.  The fields from ffBefore to fresh record     *)
(* what init met when it started, for the properties; the code does not    *)
(* hold them: the anonymous id, the config and the config text that init   *)
(* found, the config it held once it had read storage, and whether the     *)
(* client held a config fetched no longer ago than the refresh interval.   *)
(* A run of init that ends leaves a report in inits.                       *)
(***************************************************************************)
NoResult == [outcome |-> "pending", featureName |-> "", enabled |-> FALSE, userId |-> "",
             userIdType |-> "", err |-> "", hashId |-> "", index |-> -1, rollout |-> "",
             stickiness |-> "", found |-> FALSE]

NoSnap == [initialized |-> FALSE, userId |-> "", featureFlagUserId |-> ""]

NewCall(kind, name, parent, id) ==
  [kind |-> kind, name |-> name, parent |-> parent, id |-> id, pc |-> "start",
   snap |-> NoSnap, prevETag |-> "",
   ffBefore |-> "", cfgBefore |-> Undefined, blobBefore |-> NoBlob, cfgSent |-> Undefined,
   expired |-> FALSE, fresh |-> FALSE,
   initErr |-> "", initRaised |-> FALSE, cfgHeld |-> Undefined,
   result |-> NoResult, results |-> <<>>]

NoCall == NewCall("none", "", 0, 0)

\* in the report of an init that sent no request
NoResponse == [ok |-> FALSE, data |-> Undefined, etag |-> ""]

\* the end of init: the catch block, then the identity steps unless the error escaped
InitEnd(w, c, err) ==
  LET caught == InitCatch(err)
      w1 == IF caught.raised THEN w ELSE InitIdentity(w, c.snap)
  IN  [w |-> w1,
       c |-> [c EXCEPT !.pc = "awaitInit", !.snap = NoSnap, !.prevETag = "",
                       !.cfgBefore = Undefined, !.blobBefore = NoBlob, !.cfgSent = Undefined,
                       !.expired = FALSE, !.fresh = FALSE,
                       !.initErr = IF caught.raised THEN err ELSE "",
                       !.initRaised = caught.raised],
       reports |-> << [fetched |-> c.pc = "fetching", prevETag |-> c.prevETag,
                       expired |-> c.expired, fresh |-> c.fresh, snap |-> c.snap,
                       cfgBefore |-> c.cfgBefore, blobBefore |-> c.blobBefore,
                       cfgSent |-> c.cfgSent,
                       err |-> err, raised |-> caught.raised, cfgAfter |-> w1.config,
                       response |-> NoResponse] >>]

\* await this.init(), up to the first await inside it
InitCall(w, c0) ==
  LET b == InitBegin(w)
      c == [c0 EXCEPT !.snap = [initialized |-> w.initialized, userId |-> w.context.userId,
                                featureFlagUserId |-> w.featureFlagUserId],
                      !.prevETag = b.prevETag, !.expired = b.expired,
                      !.ffBefore = StorageGet(w, FEATURE_FLAG_USER_ID),
                      !.cfgBefore = w.config,
                      !.blobBefore = StorageGet(w, FEATURE_FLAG_CONFIG),
                      !.cfgSent = b.w.config,
                      !.fresh = (/\ w.config # Undefined
                                 /\ w.lastFetch >= 0
                                 /\ now - w.lastFetch <= RefreshInterval(w.context))]
  IN  IF b.fetch THEN [w |-> b.w, c |-> [c EXCEPT !.pc = "fetching"], reports |-> <<>>]
      ELSE InitEnd(b.w, c, b.err)

\* init resumed by the response of loadConfig
InitResume(w, c, response) ==
  LET a == InitAdopt(w, response)
      e == InitEnd(a.w, c, a.err)
  IN  [e EXCEPT !.reports = << [e.reports[1] EXCEPT !.response = response] >>]

(***************************************************************************)
(* queryFeatureFlag after await this.init(): lines 278-320.                *)
(***************************************************************************)
\* a variant without the catch block: what was thrown reaches the caller
QueryRethrow(r) == [r EXCEPT !.outcome = IF r.err # "" THEN "raised" ELSE "returned"]

\* the catch block of queryFeatureFlag: the error is logged and the record returned
QueryCatch(r) == [r EXCEPT !.outcome = "returned"]

\* a variant that compares with <=
IsEnabledInclusive(userFeatureIndex, rolloutValue) ==
  ParseDigits(userFeatureIndex, 10) <= ParseRollout(rolloutValue)

\* enabled: the comparison of the index with the rollout value (NaN compares false)
IsEnabled(userFeatureIndex, rolloutValue) ==
  ParseDigits(userFeatureIndex, 10) < ParseRollout(rolloutValue)

\* operationalId when the stickiness property is ffUserId
OperationalFfUserId(w, ffUserId) == w.featureFlagUserId

QueryEvaluate(w, c) ==
  LET base == [NoResult EXCEPT !.featureName = c.name, !.userIdType = "appUserId"]
      fail(wf, r, e) == [w |-> wf, r |-> QueryCatch([r EXCEPT !.err = e])]
  IN  IF c.initRaised THEN fail(w, base, c.initErr)
      ELSE LET r0 == [base EXCEPT !.userId = w.context.userId]
           IN  IF w.config = Undefined \/ ~HasFlags(w.config)
               THEN fail(w, r0, "Operation failed - no config file or invalid config file detected.")
               ELSE LET i == IndexIn([k \in DOMAIN FlagsOf(w.config) |-> FlagsOf(w.config)[k].flagName],
                                     c.name, 1)
                    IN  IF i = 0 THEN fail(w, r0, "TypeError")
                        ELSE
  LET flagConfig == FlagsOf(w.config)[i]
      targetingConfig == getTargetingConfig(w.context, flagConfig.targeting)
      rolloutValue == IF targetingConfig.rolloutValue = "" THEN "0" ELSE targetingConfig.rolloutValue
      sticky == targetingConfig.stickinessProperty = "ffUserId"
      inStorage == StorageGet(w, FEATURE_FLAG_USER_ID)
      ffUserId == IF inStorage = "" THEN createUserId(w) ELSE inStorage
      w1 == IF sticky /\ inStorage = ""
            THEN StorageSet([w EXCEPT !.uuids = @ + 1], FEATURE_FLAG_USER_ID, ffUserId)
            ELSE w
      hashId == IF sticky THEN ffUserId ELSE w.context.userId
      r1 == [r0 EXCEPT !.found = TRUE, !.rollout = rolloutValue,
                       !.stickiness = targetingConfig.stickinessProperty,
                       !.userId = IF sticky THEN OperationalFfUserId(w, ffUserId) ELSE @,
                       !.userIdType = IF sticky THEN "ffUserId" ELSE @]
      userFeatureIndex == getUserFeatureIndex(createHash(hashId, flagConfig.flagId))
  IN  IF hashId = "" THEN fail(w1, r1, "Operation failed - userId not provided")
      ELSE [w |-> w1,
            r |-> [r1 EXCEPT !.outcome = "returned", !.hashId = hashId,
                             !.index = ParseDigits(userFeatureIndex, 10),
                             !.enabled = IsEnabled(userFeatureIndex, rolloutValue)]]

(***************************************************************************)
(* The constructor.                                                        *)
(***************************************************************************)
\* a variant that checks the context only
ConstructorErrorContextOnly(ctxArg, cfgArg) ==
  IF ~ctxArg.present THEN "Please provide a context object to the constructor." ELSE ""

ConstructorError(ctxArg, cfgArg) ==
  IF ~ctxArg.present THEN "Please provide a context object to the constructor."
  ELSE IF ctxArg.configUrl = "" /\ cfgArg = Undefined
       THEN "Please provide either a config url or a valid config file."
       ELSE ""

\* a variant that starts the cache clock at the epoch
NewCacheStartEpoch == now - now

\* new Date() in the constructor
NewCacheStart == now

NoCtor == [context |-> NoContext, config |-> Undefined, outcome |-> "none"]
NoProbe ==
  [asked |-> FALSE, interval |-> 0, expired |-> FALSE,
   op |-> "none", ctx |-> NoContext, candidates |-> <<>>, answer |-> DefaultTargetingConfig,
   userId |-> "", salt |-> "", digest |-> <<>>, index |-> <<>>]

\* what a run that makes no constructor call, completes no call and asks nothing leaves
Silent == done' = NoCall /\ ctor' = NoCtor /\ probe' = NoProbe

\* new FeatureFlagClient(context, config); a client that replaces one is a restart of
\* the program, which takes the calls in flight with it
Construct(ctxArg, cfgArg) ==
  LET error == ConstructorError(ctxArg, cfgArg)
  IN  /\ ctor' = [context |-> ctxArg, config |-> cfgArg, outcome |-> IF error = "" THEN "ok" ELSE error]
      /\ done' = NoCall /\ probe' = NoProbe /\ lastSet' = EmptyStore /\ inits' = <<>>
      /\ IF error # ""
         THEN UNCHANGED <<clientVars, envVars, now, calls, lastFetch>>
         ELSE /\ alive' = TRUE
              /\ context' = ctxArg
              /\ config' = cfgArg
              /\ initialized' = FALSE
              /\ featureFlagUserId' = ""
              /\ configCacheStart' = NewCacheStart
              /\ lastFetch' = -1
              /\ calls' = <<>>
              /\ UNCHANGED <<envVars, now>>

Advance(instants) ==
  /\ \E t \in instants : t > now /\ now' = t
  /\ Silent /\ lastSet' = EmptyStore /\ inits' = <<>>
  /\ UNCHANGED <<clientVars, envVars, calls, lastFetch>>

Tick == Advance(Instants)

(***************************************************************************)
(* The public calls.                                                       *)
(***************************************************************************)
PublicCalls == {i \in DOMAIN calls : calls[i].parent = 0}

CanCall == alive /\ Cardinality(PublicCalls) < MaxPending

\* an identifier no call in flight carries
RECURSIVE FreeId(_, _)
FreeId(cs, n) == IF \E i \in DOMAIN cs : cs[i].id = n THEN FreeId(cs, n + 1) ELSE n

Remove(cs, i) == SubSeq(cs, 1, i - 1) \o SubSeq(cs, i + 1, Len(cs))

\* queryFeatureFlag(featureName), up to its first await
QueryFeatureFlag(featureName) ==
  /\ CanCall
  /\ LET r == InitCall(World, NewCall("one", featureName, 0, FreeId(calls, 1)))
     IN  /\ r.w.uuids <= MaxUuids
         /\ calls' = Append(calls, r.c)
         /\ inits' = r.reports
         /\ SetWorld(r.w)
  /\ Silent
  /\ UNCHANGED now

\* queryAllFeatureFlags(), up to its first await
QueryAllFeatureFlags ==
  /\ CanCall
  /\ LET r == InitCall(World, NewCall("all", "", 0, FreeId(calls, 1)))
     IN  /\ r.w.uuids <= MaxUuids
         /\ calls' = Append(calls, r.c)
         /\ inits' = r.reports
         /\ SetWorld(r.w)
  /\ Silent
  /\ UNCHANGED now

\* axios answers (or fails) the request of call i, and its init runs to its end
FetchReturn(i, response) ==
  /\ calls[i].pc = "fetching"
  /\ LET r == InitResume(World, calls[i], response)
     IN  /\ r.w.uuids <= MaxUuids
         /\ calls' = [calls EXCEPT ![i] = r.c]
         /\ inits' = r.reports
         /\ SetWorld(r.w)
  /\ Silent
  /\ UNCHANGED now

\* a variant that keeps the records of the evaluations that did not fail only
PushUnlessFailed(cs, c, r) ==
  IF c.kind = "sub" /\ r.err = ""
  THEN [k \in DOMAIN cs |-> IF cs[k].id = c.parent
                            THEN [cs[k] EXCEPT !.results = Append(@, r)]
                            ELSE cs[k]]
  ELSE cs

\* featureFlagResultsMap.push(featureFlagData), in the batch that made the call
Push(cs, c, r) ==
  IF c.kind = "sub"
  THEN [k \in DOMAIN cs |-> IF cs[k].id = c.parent
                            THEN [cs[k] EXCEPT !.results = Append(@, r),
                                               !.result.outcome = IF r.outcome = "raised"
                                                                  THEN "raised" ELSE @]
                            ELSE cs[k]]
  ELSE cs

\* queryFeatureFlag goes on after init, to its return
QueryFinish(i) ==
  /\ calls[i].kind \in {"one", "sub"}
  /\ calls[i].pc = "awaitInit"
  /\ LET e == QueryEvaluate(World, calls[i])
     IN  /\ e.w.uuids <= MaxUuids
         /\ done' = [calls[i] EXCEPT !.pc = "done", !.result = e.r]
         /\ calls' = Push(Remove(calls, i), calls[i], e.r)
         /\ SetWorld(e.w)
  /\ ctor' = NoCtor /\ probe' = NoProbe /\ inits' = <<>>
  /\ UNCHANGED now

\* config.flags.map(async flag => ...): every queryFeatureFlag runs to its first await
RECURSIVE MapFlags(_, _, _, _, _, _)
MapFlags(w, cs, reports, flags, k, parent) ==
  IF k > Len(flags) THEN [w |-> w, cs |-> cs, reports |-> reports]
  ELSE LET r == InitCall(w, NewCall("sub", flags[k].flagName, parent, FreeId(cs, 1)))
       IN  MapFlags(r.w, Append(cs, r.c), reports \o r.reports, flags, k + 1, parent)

\* a variant that throws only when there is no config at all
AllThrowsWithoutConfig(c, cfg) == c.initRaised \/ cfg = Undefined

\* line 329: if (!config || !config.flags) throw
AllThrows(c, cfg) == c.initRaised \/ cfg = Undefined \/ ~HasFlags(cfg)

\* queryAllFeatureFlags goes on after init: it throws, or starts a query for every flag;
\* cfgHeld records the config it read from this, for the properties
AllContinue(i) ==
  /\ calls[i].kind = "all"
  /\ calls[i].pc = "awaitInit"
  /\ IF AllThrows(calls[i], config)
     THEN /\ done' = [calls[i] EXCEPT !.pc = "done", !.result.outcome = "raised",
                                     !.cfgHeld = config,
                                     !.result.err = IF calls[i].initRaised THEN calls[i].initErr
                                                    ELSE "No config file or invalid config file detected."]
          /\ calls' = Remove(calls, i)
          /\ lastSet' = EmptyStore /\ inits' = <<>>
          /\ UNCHANGED <<clientVars, envVars, lastFetch>>
     ELSE LET m == MapFlags(World, [calls EXCEPT ![i].pc = "awaitAll", ![i].cfgHeld = config],
                            <<>>, FlagsOf(config), 1,
                            calls[i].id)
          IN  /\ m.w.uuids <= MaxUuids
              /\ done' = NoCall
              /\ calls' = m.cs
              /\ inits' = m.reports
              /\ SetWorld(m.w)
  /\ ctor' = NoCtor /\ probe' = NoProbe
  /\ UNCHANGED now

SubCalls(i) == {j \in DOMAIN calls : calls[j].kind = "sub" /\ calls[j].parent = calls[i].id}

\* Promise.all(promises).then(() => featureFlagResultsMap)
AllReturn(i) ==
  /\ calls[i].kind = "all"
  /\ calls[i].pc = "awaitAll"
  /\ SubCalls(i) = {}
  /\ done' = [calls[i] EXCEPT !.pc = "done",
                              !.result.outcome = IF @ = "raised" THEN "raised" ELSE "returned"]
  /\ calls' = Remove(calls, i)
  /\ ctor' = NoCtor /\ probe' = NoProbe /\ lastSet' = EmptyStore /\ inits' = <<>>
  /\ UNCHANGED <<clientVars, envVars, now, lastFetch>>

\* checkConfigCacheExpiry(interval), called from outside as the tests call it
CheckExpiry(interval) ==
  /\ alive
  /\ probe' = [NoProbe EXCEPT !.asked = TRUE, !.interval = interval,
                              !.expired = checkConfigCacheExpiry(interval)]
  /\ done' = NoCall /\ ctor' = NoCtor /\ lastSet' = EmptyStore /\ inits' = <<>>
  /\ UNCHANGED <<clientVars, envVars, now, calls, lastFetch>>

(***************************************************************************)
(* The state before the first constructor call.  Storage holds what an     *)
(* earlier run of the program may have left in it.                         *)
(***************************************************************************)
StoresLeft ==
  { EmptyStore,
    [EmptyStore EXCEPT ![FEATURE_FLAG_USER_ID] = "uuid-0"],
    [EmptyStore EXCEPT ![FEATURE_FLAG_USER_ID] = "uuid-0", ![APP_USER_ID] = "456",
                       ![FEATURE_FLAG_CONFIG] = ToStoredText(JSONstringify("stored")),
                       ![FEATURE_FLAG_CONFIG_ETAG] = "etag-0"] }

HmacSeeds == {0}

NoArgs ==
  [op |-> "none", ctx |-> NoContext, candidates |-> <<>>, userId |-> "", salt |-> "",
   digest |-> <<>>]

InitState ==
  /\ alive = FALSE
  /\ context = NoContext
  /\ config = Undefined
  /\ featureFlagUserId = ""
  /\ initialized = FALSE
  /\ configCacheStart = 0
  /\ storageAvailable \in BOOLEAN
  /\ store \in (IF storageAvailable THEN StoresLeft ELSE {EmptyStore})
  /\ now = 0
  /\ calls = <<>>
  /\ hmacSeed \in HmacSeeds
  /\ uuids = 0
  /\ lastFetch = -1
  /\ lastSet = EmptyStore
  /\ inits = <<>>
  /\ done = NoCall
  /\ ctor = NoCtor
  /\ probe = NoProbe

Init == InitState /\ args = NoArgs

\* constructor arguments the constructor accepts, and ones it rejects
AcceptedArgs ==
  { <<ContextNoConfigUrl, "local">>, <<ContextA, Undefined>>, <<ContextA, "noflags">>,
    <<ContextB, Undefined>>, <<ContextAnonymous, Undefined>> }

RejectedArgs == { <<NoContext, Undefined>>, <<NoContext, "local">>, <<ContextNoConfigUrl, Undefined>> }

Next ==
  \/ \E a \in AcceptedArgs : Construct(a[1], a[2])
  \/ Tick
  \/ \E featureName \in FlagNames : QueryFeatureFlag(featureName)
  \/ QueryAllFeatureFlags
  \/ \E i \in DOMAIN calls, response \in Responses : FetchReturn(i, response)
  \/ \E i \in DOMAIN calls : QueryFinish(i)
  \/ \E i \in DOMAIN calls : AllContinue(i)
  \/ \E i \in DOMAIN calls : AllReturn(i)

Spec == Init /\ [][Next]_vars

(***************************************************************************)
(* The cache clock alone: a client is constructed, time passes, and        *)
(* checkConfigCacheExpiry is asked from outside.                           *)
(***************************************************************************)
TickFine == Advance(ProbeInstants)

NextExpiry ==
  \/ \E a \in AcceptedArgs \cup RejectedArgs : Construct(a[1], a[2])
  \/ TickFine
  \/ \E interval \in ProbeIntervals : CheckExpiry(interval)

\* a host without Storage, as the tests run on
InitExpiry == Init /\ ~storageAvailable

SpecExpiry == InitExpiry /\ [][NextExpiry]_vars

(***************************************************************************)
(* The methods that read no field of the client: getTargetingConfig, and   *)
(* createHash with getUserFeatureIndex, called from outside on a client    *)
(* in any state, with arguments of their own.                              *)
(***************************************************************************)
\* targeting configs to build lists of: two of priority 1 that differ in what they
\* accept, one that asks for two fields, one with an empty list of criteria, one
\* without criteria, and one of priority 3
CandidatePool ==
  { Targeting(1, "100", "", <<Criterion("Platform", <<"iOS">>)>>),
    Targeting(1, "50", "ffUserId", <<Criterion("Platform", <<"iOS", "Windows">>)>>),
    Targeting(2, "100", "", <<Criterion("Platform", <<"iOS">>),
                              Criterion("Brand", <<"BrandA", "BrandC">>)>>),
    Targeting(2, "50", "", <<>>),
    TargetingNoCriteria(1, "100", "ffUserId"),
    Targeting(3, "0", "", <<Criterion("Brand", <<"BrandB">>)>>) }

CandidateLists == UNION {[1..n -> CandidatePool] : n \in 0..MaxCandidates}

ProbeContexts == {ContextA, ContextB, ContextNoConfigUrl, ContextAnonymous}

Salts == {"salt-A", "salt-B"}

HexDigits == 0..15

\* the arguments an outside caller may hold
PureArgs ==
  {[NoArgs EXCEPT !.op = "getTargetingConfig", !.ctx = ctx, !.candidates = targetingConfigs] :
     ctx \in ProbeContexts, targetingConfigs \in CandidateLists}
  \cup {[NoArgs EXCEPT !.op = "createHash", !.userId = Identifiers[k], !.salt = salt] :
          k \in DOMAIN Identifiers, salt \in Salts}
  \cup {[NoArgs EXCEPT !.op = "getUserFeatureIndex", !.digest = <<0, 0, hi, lo>>] :
          hi \in HexDigits, lo \in HexDigits}

\* a run that only calls a synchronous method from outside
Ask(p) ==
  /\ alive
  /\ probe' = p
  /\ done' = NoCall /\ ctor' = NoCtor /\ lastSet' = EmptyStore /\ inits' = <<>>
  /\ UNCHANGED <<clientVars, envVars, now, calls, lastFetch>>

\* getTargetingConfig(context, targetingConfigs)
ResolveTargeting ==
  /\ args.op = "getTargetingConfig"
  /\ Ask([NoProbe EXCEPT !.op = args.op, !.ctx = args.ctx, !.candidates = args.candidates,
                         !.answer = getTargetingConfig(args.ctx, args.candidates)])

\* getUserFeatureIndex(createHash(userId, salt)), as lines 306 and 307 chain them
HashIndex ==
  /\ args.op = "createHash"
  /\ Ask([NoProbe EXCEPT !.op = args.op, !.userId = args.userId, !.salt = args.salt,
                         !.digest = createHash(args.userId, args.salt),
                         !.index = getUserFeatureIndex(createHash(args.userId, args.salt))])

\* getUserFeatureIndex(hash) for a digest that ends in two given hex digits
DigestIndex ==
  /\ args.op = "getUserFeatureIndex"
  /\ Ask([NoProbe EXCEPT !.op = args.op, !.digest = args.digest,
                         !.index = getUserFeatureIndex(args.digest)])

NextPure ==
  \/ \E a \in AcceptedArgs : Construct(a[1], a[2])
  \/ Tick
  \/ ResolveTargeting
  \/ HashIndex
  \/ DigestIndex

InitPure == InitState /\ ~storageAvailable /\ args \in PureArgs

SpecPure == InitPure /\ [][NextPure]_vars

(***************************************************************************)
(* Properties of the constructor and of the cache clock, under SpecExpiry. *)
(***************************************************************************)
NoContextError == "Please provide a context object to the constructor."
NoConfigError == "Please provide either a config url or a valid config file."

\* C2: the constructor fails when no context is given, and fails when the context has no
\* configUrl and no static config is supplied, in both cases leaving no client behind;
\* in every other case it succeeds and leaves a client with initialized = false.
C2_ConstructorOutcome ==
  [][ctor'.outcome # "none" =>
       LET c == ctor' IN
       /\ ~c.context.present =>
            c.outcome = NoContextError /\ UNCHANGED <<clientVars, calls>>
       /\ (c.context.present /\ c.context.configUrl = "" /\ c.config = Undefined) =>
            c.outcome = NoConfigError /\ UNCHANGED <<clientVars, calls>>
       /\ (c.context.present /\ (c.context.configUrl # "" \/ c.config # Undefined)) =>
            /\ c.outcome = "ok"
            /\ alive' /\ ~initialized'
            /\ context' = c.context /\ config' = c.config]_vars

\* C2, its case: a context without configUrl and without a static config was rejected
\* while a client built from a static config alone stayed as it was
C2_Witness ==
  /\ ctor.outcome = NoConfigError
  /\ ctor.context = ContextNoConfigUrl
  /\ alive /\ context = ContextNoConfigUrl /\ config = "local" /\ ~initialized

\* C9: checkConfigCacheExpiry(interval) returns true exactly when more than interval
\* milliseconds lie between the cache start time and now; it returns false when exactly
\* interval milliseconds do.
C9_ExpiredIffElapsedExceeds ==
  probe.asked =>
    /\ probe.expired <=> (now - configCacheStart > probe.interval)
    /\ (now - configCacheStart = probe.interval) => ~probe.expired

\* C9, its case: asked at the boundary of a positive interval, the answer was false
C9_Witness ==
  /\ probe.asked /\ probe.interval > 0
  /\ now - configCacheStart = probe.interval
  /\ ~probe.expired

\* C10 as the claim states it: asked right after construction, checkConfigCacheExpiry(0)
\* returns true and checkConfigCacheExpiry(3600000) returns false.
C10_AsClaimed ==
  [][(ctor.outcome = "ok" /\ probe'.asked) =>
       /\ probe'.interval = 0 => probe'.expired
       /\ probe'.interval = 3600000 => ~probe'.expired]_vars

\* C10 as the code has it: asked right after construction, checkConfigCacheExpiry(0) and
\* checkConfigCacheExpiry(3600000) both return false; checkConfigCacheExpiry(0) returns
\* true as soon as any time has passed since the cache start time was set.
C10_Amended ==
  [][probe'.asked =>
       /\ (ctor.outcome = "ok" /\ probe'.interval \in {0, 3600000}) => ~probe'.expired
       /\ (probe'.interval = 0 /\ now' > configCacheStart') => probe'.expired]_vars

\* C10, its case: no time has passed since construction and checkConfigCacheExpiry(0)
\* answered false
C10_Witness ==
  /\ probe.asked /\ probe.interval = 0
  /\ now = configCacheStart
  /\ ~probe.expired

(***************************************************************************)
(* Properties of the calls, under Spec.  done is the call the last run     *)
(* completed, inits the runs of init that ended in it.                     *)
(***************************************************************************)
\* C1: queryFeatureFlag always returns a record to its caller, whatever the flag name,
\* the config held or stored and the answer to the request; when the evaluation fails
\* (no config, a config without flags, a flag that is not in the config, no identifier
\* to hash) the record has enabled = false.
C1_QueryNeverRaises ==
  done.kind \in {"one", "sub"} =>
    LET r == done.result
        names == IF config # Undefined /\ HasFlags(config)
                 THEN {FlagsOf(config)[k].flagName : k \in DOMAIN FlagsOf(config)}
                 ELSE {}
    IN  /\ r.outcome = "returned"
        /\ r.featureName = done.name
        /\ (config = Undefined \/ ~HasFlags(config)) => ~r.enabled
        /\ done.name \notin names => ~r.enabled
        /\ r.hashId = "" => ~r.enabled
        /\ r.err # "" => ~r.enabled

\* C1, its case: a flag that the config does not hold was asked for, the lookup threw,
\* and the call returned a record that is not enabled
C1_Witness ==
  /\ done.kind = "one" /\ done.name = "feature-X"
  /\ config # Undefined /\ HasFlags(config)
  /\ done.result.err = "TypeError"
  /\ done.result.outcome = "returned" /\ ~done.result.enabled

\* C3: for a flag the config holds and an identifier that is there, enabled is
\* (bucket index < rollout value of the resolved targeting config); so a rollout value
\* of "100" gives enabled = true and one of "0" (the default included) enabled = false.
C3_EnabledIsIndexBelowRollout ==
  (done.kind \in {"one", "sub"} /\ done.result.found /\ done.result.hashId # "") =>
    LET r == done.result
        flag == CHOOSE f \in {FlagsOf(config)[k] : k \in DOMAIN FlagsOf(config)} :
                  f.flagName = done.name
        resolved == getTargetingConfig(context, flag.targeting)
        percent == CASE r.rollout = "100" -> 100
                     [] r.rollout = "50" -> 50
                     [] r.rollout = "0" -> 0
                     [] OTHER -> -1
        hex == createHash(r.hashId, flag.flagId)
        bucket == ((hex[Len(hex) - 1] * 16 + hex[Len(hex)]) % 100)
    IN  /\ r.rollout = (IF resolved.rolloutValue = "" THEN "0" ELSE resolved.rolloutValue)
        /\ r.index = bucket /\ bucket \in 0..99
        /\ r.enabled = (bucket < percent)
        /\ r.rollout = "100" => r.enabled
        /\ r.rollout = "0" => ~r.enabled

\* C3, its case: the scenario of the tests, feature-A resolved to the rule for iOS with
\* rollout value "100" and the app user id hashed, here to the highest index there is
C3_Witness ==
  /\ done.kind = "one" /\ done.name = "feature-A"
  /\ context.userId = "123" /\ config = "remote"
  /\ done.result.found /\ done.result.hashId = "123"
  /\ done.result.rollout = "100" /\ done.result.userIdType = "appUserId"
  /\ done.result.index = 99
  /\ done.result.enabled

\* C4: the userId of the record queryFeatureFlag returns is the identifier that was
\* hashed: the userId of the context when userIdType is "appUserId", the anonymous id
\* that storage holds when userIdType is "ffUserId".
C4_UserIdIsHashedId ==
  (storageAvailable /\ done.kind \in {"one", "sub"} /\ done.result.hashId # "") =>
    LET r == done.result
    IN  /\ r.userId = r.hashId
        /\ r.userIdType = "appUserId" => r.userId = context.userId
        /\ r.userIdType = "ffUserId" => r.userId = store[FEATURE_FLAG_USER_ID]

\* C5: when the resolved targeting config is sticky on ffUserId and storage held no
\* anonymous id before the call, the record has userIdType "ffUserId" and carries as
\* userId the new id that the call wrote to storage under the key of the anonymous id.
C5_NewAnonymousIdReturned ==
  (done.kind \in {"one", "sub"} /\ done.result.stickiness = "ffUserId" /\ done.ffBefore = "") =>
    LET r == done.result
    IN  /\ r.userIdType = "ffUserId"
        /\ \E k \in 1..uuids : r.userId = Uuids[k]
        /\ lastSet[FEATURE_FLAG_USER_ID] # "" => r.userId = lastSet[FEATURE_FLAG_USER_ID]
        /\ storageAvailable => r.userId = store[FEATURE_FLAG_USER_ID]

\* C5 where storage gives back what was set: the new id is the one init created
C5_WithWorkingStorage == storageAvailable => C5_NewAnonymousIdReturned

RefreshErrors ==
  {"Failed to load config file - no config url provided.", "Failed to retrieve config file."}

\* C7 as the claim states it: when the refresh inside init fails, init does not raise
\* and the config in memory after init is the config in memory before init started.
C7_AsClaimed ==
  \A k \in DOMAIN inits :
    inits[k].err \in RefreshErrors => ~inits[k].raised /\ inits[k].cfgAfter = inits[k].cfgBefore

\* C7 as the code has it: when the refresh inside init fails, init does not raise and
\* the failure leaves the config in memory as it is at that moment; before it sent the
\* request, init had replaced the config in memory by the one parsed from the text in
\* storage if there was one, and had kept the config it started with if there was none
\* or if there was no config URL.
C7_Amended ==
  [][\A k \in DOMAIN inits' :
       LET r == inits'[k] IN
       r.err \in RefreshErrors =>
         /\ ~r.raised
         /\ config' = config
         /\ r.cfgAfter = config
         /\ r.cfgSent = (IF r.fetched /\ r.blobBefore # NoBlob
                         THEN JSONparse(r.blobBefore) ELSE r.cfgBefore)
         /\ ~r.fetched => r.err = "Failed to load config file - no config url provided."]_vars

\* C7, its case: the request failed and init left in memory the config of storage, which
\* is not the config the client held before init started
C7_Witness ==
  \E k \in DOMAIN inits :
    /\ inits[k].err = "Failed to retrieve config file." /\ ~inits[k].raised
    /\ inits[k].blobBefore # NoBlob
    /\ inits[k].cfgAfter = JSONparse(inits[k].blobBefore)
    /\ inits[k].cfgAfter # inits[k].cfgBefore
    /\ config = inits[k].cfgAfter

\* C8: once an init has fetched a config at time t, an init that starts on the same
\* client no later than t + the refresh interval in force finds the cache not stale and
\* sends no request.
C8_NoFetchWithinInterval ==
  /\ \A i \in DOMAIN calls : calls[i].pc = "fetching" => ~calls[i].fresh
  /\ \A k \in DOMAIN inits : inits[k].fresh => ~inits[k].expired /\ ~inits[k].fetched

(***************************************************************************)
(* Properties of the batch, under Spec.  cfgHeld is the config that        *)
(* queryAllFeatureFlags read after its own init.                           *)
(***************************************************************************)
\* C11: queryAllFeatureFlags returns one record for every flag of the config it held
\* after its init, each with the name of its flag, in whatever order the queries of the
\* flags completed and whether or not they failed.
C11_OneRecordPerFlag ==
  (done.kind = "all" /\ done.result.outcome = "returned") =>
    LET flags == FlagsOf(done.cfgHeld)
        records == done.results
    IN  /\ Len(records) = Len(flags)
        /\ \A name \in FlagNames :
             Cardinality({k \in DOMAIN records : records[k].featureName = name})
               = Cardinality({k \in DOMAIN flags : flags[k].flagName = name})
        /\ \A k \in DOMAIN records : records[k].outcome = "returned"

\* C11, its case: a batch over two flags returned the record of the second flag before
\* that of the first, one of the two evaluations having failed
C11_Witness ==
  /\ done.kind = "all" /\ done.result.outcome = "returned"
  /\ Len(FlagsOf(done.cfgHeld)) = 2 /\ Len(done.results) = 2
  /\ done.results[1].featureName = FlagsOf(done.cfgHeld)[2].flagName
  /\ done.results[2].featureName = FlagsOf(done.cfgHeld)[1].flagName
  /\ \E k \in 1..2 : done.results[k].err # "" /\ ~done.results[k].enabled

\* C12: queryAllFeatureFlags throws exactly when, after its init, the client holds no
\* config or a config without flags; an evaluation of a flag that fails inside the batch
\* is not thrown and gives a record with enabled = false.
C12_BatchThrowsIffNoConfig ==
  done.kind = "all" =>
    /\ done.result.outcome \in {"raised", "returned"}
    /\ done.result.outcome = "raised" <=> (done.cfgHeld = Undefined \/ ~HasFlags(done.cfgHeld))
    /\ done.result.outcome = "raised" =>
         done.result.err = "No config file or invalid config file detected."
    /\ \A k \in DOMAIN done.results :
         done.results[k].err # "" =>
           done.results[k].outcome = "returned" /\ ~done.results[k].enabled

\* C12, its case: the client held a config without flags after init and the batch threw
C12_Witness ==
  /\ done.kind = "all" /\ done.result.outcome = "raised"
  /\ done.cfgHeld = "noflags"
  /\ done.results = <<>>

(***************************************************************************)
(* Properties of getTargetingConfig, under SpecPure.                       *)
(***************************************************************************)
\* a targeting config fully matches a context: it has criteria, at least one, and for
\* each of them the context holds a value under the field, not an empty one, that is
\* or holds one of the values of the criterion
FullyMatches(ctx, t) ==
  /\ t.hasCriteria /\ t.targetCriteria # <<>>
  /\ \A i \in DOMAIN t.targetCriteria :
       LET c == t.targetCriteria[i]
           held == CASE c.targetFieldName = "Platform" -> ctx.Platform
                     [] c.targetFieldName = "Brand" -> ctx.Brand
                     [] OTHER -> Absent
       IN  /\ held.kind \in {"string", "array"}
           /\ ~(held.kind = "string" /\ held.vals = <<"">>)
           /\ \E j \in DOMAIN c.targetFieldValues, k \in DOMAIN held.vals :
                held.vals[k] = c.targetFieldValues[j]

\* the positions of the list the probe was asked about that fully match its context
MatchingPositions ==
  {k \in DOMAIN probe.candidates : FullyMatches(probe.ctx, probe.candidates[k])}

\* C13: getTargetingConfig returns the default {rolloutValue: "0", targetPriority: 1}
\* when the list is empty or no targeting config of it fully matches the context, and
\* returns a targeting config of the list only if that one fully matches.
C13_DefaultUnlessMatch ==
  probe.op = "getTargetingConfig" =>
    LET default == [targetPriority |-> 1, rolloutValue |-> "0", stickinessProperty |-> "",
                    hasCriteria |-> FALSE, targetCriteria |-> <<>>]
    IN  /\ MatchingPositions = {} => probe.answer = default
        /\ \/ probe.answer = default
           \/ \E k \in MatchingPositions : probe.answer = probe.candidates[k]

\* C13, its case: a list of several targeting configs none of which matches the context
C13_Witness ==
  /\ probe.op = "getTargetingConfig"
  /\ Len(probe.candidates) >= 2 /\ MatchingPositions = {}
  /\ \E k \in DOMAIN probe.candidates : probe.candidates[k].targetCriteria # <<>>
  /\ probe.answer.rolloutValue = "0" /\ probe.answer.targetPriority = 1

\* C14: a targeting config matches exactly when it has a list of criteria that is not
\* empty and every criterion matches, a criterion matching when the context holds a
\* value under its field that equals or holds one of its values; one without criteria,
\* with an empty list, or with a criterion on a field the context lacks never matches.
C14_MatchIsAllOfAnyOf ==
  probe.op = "getTargetingConfig" =>
    /\ Len(probe.candidates) = 1 =>
         (probe.answer = probe.candidates[1] <=> FullyMatches(probe.ctx, probe.candidates[1]))
    /\ \A k \in DOMAIN probe.candidates :
         LET t == probe.candidates[k]
         IN  (\/ ~t.hasCriteria
              \/ t.targetCriteria = <<>>
              \/ \E i \in DOMAIN t.targetCriteria :
                   /\ t.targetCriteria[i].targetFieldName = "Brand"
                   /\ probe.ctx.Brand = Absent)
             => probe.answer # t

\* C14, its case: a targeting config with two criteria, each with one value that the
\* array the context holds under the field has, was asked for alone and returned
C14_Witness ==
  /\ probe.op = "getTargetingConfig"
  /\ Len(probe.candidates) = 1
  /\ Len(probe.candidates[1].targetCriteria) = 2
  /\ probe.ctx.Platform.kind = "array" /\ probe.ctx.Brand.kind = "array"
  /\ probe.answer = probe.candidates[1]

\* C15: when targeting configs of equal targetPriority match the context and none of a
\* lower priority does, getTargetingConfig returns the one that comes first in the list.
C15_FirstOfEqualPriority ==
  (probe.op = "getTargetingConfig" /\ MatchingPositions # {}) =>
    LET lowest == CHOOSE k \in MatchingPositions :
                    \A j \in MatchingPositions :
                      \/ probe.candidates[k].targetPriority < probe.candidates[j].targetPriority
                      \/ /\ probe.candidates[k].targetPriority = probe.candidates[j].targetPriority
                         /\ k <= j
    IN  probe.answer = probe.candidates[lowest]

\* C17: when several targeting configs match the context, getTargetingConfig returns
\* one of them whose targetPriority is the lowest of all that match, in whatever order
\* the list holds them.
C17_LowestPriorityOfMatching ==
  (probe.op = "getTargetingConfig" /\ MatchingPositions # {}) =>
    /\ \E k \in MatchingPositions : probe.answer = probe.candidates[k]
    /\ \A j \in MatchingPositions :
         probe.answer.targetPriority <= probe.candidates[j].targetPriority

\* C17, its case: three targeting configs that all match, the list holding the ones of
\* higher priority first
C17_Witness ==
  /\ probe.op = "getTargetingConfig"
  /\ Len(probe.candidates) = 3 /\ MatchingPositions = {1, 2, 3}
  /\ probe.candidates[1].targetPriority > probe.candidates[2].targetPriority
  /\ probe.candidates[2].targetPriority >= probe.candidates[3].targetPriority
  /\ probe.answer.targetPriority = probe.candidates[3].targetPriority

(***************************************************************************)
(* Properties of createHash and getUserFeatureIndex, under SpecPure.       *)
(***************************************************************************)
\* the digest that the keyed hash function of the host gives an identifier and a salt,
\* whenever and on whatever client it is asked
DigestOf(userId, salt) ==
  LET position == CHOOSE k \in DOMAIN Identifiers : Identifiers[k] = userId
      shift == IF salt = "salt-A" THEN 0 ELSE 1
  IN  HexDigests[((position + shift + hmacSeed) % Len(HexDigests)) + 1]

\* C16: the bucket index is an integer from 0 to 99, the value of the last two hex
\* digits of the digest (0 to 255) cut to its last two decimal digits; an identifier
\* and a salt always give the same index; computing it changes neither the client nor
\* storage.
C16_IndexIsPureAndBelow100 ==
  [][probe'.op \in {"createHash", "getUserFeatureIndex"} =>
       LET p == probe'
           byte == p.digest[Len(p.digest) - 1] * 16 + p.digest[Len(p.digest)]
           value == IF Len(p.index) = 1 THEN p.index[1] ELSE p.index[1] * 10 + p.index[2]
       IN  /\ Len(p.index) \in {1, 2}
           /\ \A k \in DOMAIN p.index : p.index[k] \in 0..9
           /\ byte \in 0..255
           /\ value = byte % 100
           /\ value \in 0..99
           /\ p.op = "createHash" => p.digest = DigestOf(p.userId, p.salt)
           /\ UNCHANGED <<clientVars, storageAvailable, store, uuids, calls, lastFetch>>
           /\ lastSet' = EmptyStore]_vars

\* C16, its case: a digest that ends in ff, whose value 255 has three decimal digits,
\* gave the index 55
C16_Witness ==
  /\ probe.op = "getUserFeatureIndex"
  /\ probe.digest = <<0, 0, 15, 15>>
  /\ probe.index = <<5, 5>>

(***************************************************************************)
(* C18 as claimed: whenever init runs with a cached config blob in storage *)
(* and the cache not stale, the in-memory config after init is the stored  *)
(* config, and init sends no remote fetch.                                 *)
(***************************************************************************)
C18_AsClaimed ==
  \A k \in DOMAIN inits :
    LET r == inits[k] IN
      (r.blobBefore # NoBlob /\ r.blobBefore[1] = "json" /\ ~r.expired)
        => (~r.fetched /\ r.cfgAfter = r.blobBefore[2])

(***************************************************************************)
(* C18 amended: when init runs with a parseable cached config blob in      *)
(* storage and the cache not stale, it sends no remote fetch; it uses the  *)
(* stored config as the in-memory config when the client held no config    *)
(* as init started, and otherwise leaves the config it holds as it is.     *)
(***************************************************************************)
C18_Amended ==
  /\ \A k \in DOMAIN inits :
       LET r == inits[k] IN
         (r.blobBefore # NoBlob /\ r.blobBefore[1] = "json" /\ ~r.expired)
           => /\ ~r.fetched
              /\ r.cfgAfter = IF r.cfgBefore = Undefined THEN r.blobBefore[2] ELSE r.cfgBefore
  /\ \A i \in DOMAIN calls :
       calls[i].pc = "fetching" => (calls[i].blobBefore = NoBlob \/ calls[i].expired)

\* C18 witness: an init that held no config found a blob in a fresh cache and took its config
C18_Witness ==
  \E k \in DOMAIN inits :
    LET r == inits[k] IN
      /\ r.cfgBefore = Undefined /\ r.blobBefore = <<"json", "stored">> /\ ~r.expired
      /\ ~r.fetched /\ r.cfgAfter = "stored" /\ config = "stored"

(***************************************************************************)
(* C19: every remote fetch init sends presents the value stored under the  *)
(* config-ETag key at that moment, or "-1" when nothing is stored there;   *)
(* the stored value changes only when a successful response carries an     *)
(* etag, and then becomes that etag, so it is the etag of the most recent  *)
(* successful response that carried one; a successful response without an  *)
(* etag, and a failed request, leave the stored token unchanged.           *)
(***************************************************************************)
C19_TokenIsStoredETag ==
  [][/\ \A i \in DOMAIN calls' :
          (/\ calls'[i].pc = "fetching"
           /\ ~\E j \in DOMAIN calls : calls[j].id = calls'[i].id /\ calls[j].pc = "fetching")
            => calls'[i].prevETag = IF storageAvailable /\ store[FEATURE_FLAG_CONFIG_ETAG] # ""
                                    THEN store[FEATURE_FLAG_CONFIG_ETAG]
                                    ELSE "-1"
     /\ \A k \in DOMAIN inits' :
          LET r == inits'[k] IN
            r.fetched =>
              store'[FEATURE_FLAG_CONFIG_ETAG] =
                IF r.response.ok /\ r.response.etag # "" /\ storageAvailable
                THEN r.response.etag
                ELSE store[FEATURE_FLAG_CONFIG_ETAG]
     /\ store'[FEATURE_FLAG_CONFIG_ETAG] # store[FEATURE_FLAG_CONFIG_ETAG]
          => \E k \in DOMAIN inits' :
               /\ inits'[k].fetched /\ inits'[k].response.ok
               /\ inits'[k].response.etag = store'[FEATURE_FLAG_CONFIG_ETAG]
    ]_vars

\* C19 witness: a request presents the etag that an earlier response of this client stored
C19_Witness ==
  \E i \in DOMAIN calls :
    /\ calls[i].pc = "fetching" /\ calls[i].prevETag = "etag-1"
    /\ storageAvailable /\ store[FEATURE_FLAG_CONFIG_ETAG] = "etag-1"

(***************************************************************************)
(* C20: in the step that handles a successful response of loadConfig, if   *)
(* the response has a body the in-memory config becomes the returned       *)
(* config, and if it has none the in-memory config stays what it was; in   *)
(* both cases the blob handed to storage under the config key is the       *)
(* serialization of the config the client then holds (JSON.stringify of no *)
(* config reaches Storage as the text undefined), and a host with Storage  *)
(* holds that blob afterwards.                                             *)
(***************************************************************************)
C20_AdoptOrKeepThenPersist ==
  [][\A k \in DOMAIN inits' :
       LET r == inits'[k] IN
         (r.fetched /\ r.response.ok) =>
           /\ config' = IF r.response.data # Undefined THEN r.response.data ELSE config
           /\ r.cfgAfter = config'
           /\ lastSet'[FEATURE_FLAG_CONFIG] =
                IF config' = Undefined THEN <<"text", "undefined">> ELSE <<"json", config'>>
           /\ storageAvailable => store'[FEATURE_FLAG_CONFIG] = lastSet'[FEATURE_FLAG_CONFIG]
    ]_vars

\* C20 witness: a response without a body has been handled by a client that held a
\* config, which it still holds and whose serialization is in storage
C20_Witness ==
  \E k \in DOMAIN inits :
    /\ inits[k].fetched /\ inits[k].response.ok /\ inits[k].response.data = Undefined
    /\ inits[k].cfgSent # Undefined /\ config = inits[k].cfgSent
    /\ storageAvailable /\ store[FEATURE_FLAG_CONFIG] = <<"json", config>>

(***************************************************************************)
(* The interval C21 names: context.configRefreshInterval whenever the      *)
(* context supplies one, 0 included, and 86,400,000 ms when it supplies    *)
(* none; and whether the cache is older than that.                         *)
(***************************************************************************)
ClaimedInterval(ctx) ==
  IF ctx.configRefreshInterval # NoInterval THEN ctx.configRefreshInterval ELSE 86400000

ClaimedExpired == now - configCacheStart > ClaimedInterval(context)

(***************************************************************************)
(* C21: the refresh interval of init's staleness check is                  *)
(* context.configRefreshInterval whenever the context supplies one, 0      *)
(* included, and 86,400,000 ms only when the context supplies none: every  *)
(* init that starts finds the cache expired exactly when the time since    *)
(* the cache start exceeds that interval.                                  *)
(***************************************************************************)
C21_IntervalIsContextValue ==
  [][/\ \A k \in DOMAIN inits' :
          ~inits'[k].fetched => inits'[k].expired = ClaimedExpired
     /\ \A i \in DOMAIN calls' :
          (/\ calls'[i].pc = "fetching"
           /\ ~\E j \in DOMAIN calls : calls[j].id = calls'[i].id /\ calls[j].pc = "fetching")
            => calls'[i].expired = ClaimedExpired
    ]_vars

\* the same for the contexts whose interval is not 0
C21_ForNonZeroIntervals ==
  [][context.configRefreshInterval # 0 =>
       /\ \A k \in DOMAIN inits' :
            ~inits'[k].fetched => inits'[k].expired = ClaimedExpired
       /\ \A i \in DOMAIN calls' :
            (/\ calls'[i].pc = "fetching"
             /\ ~\E j \in DOMAIN calls : calls[j].id = calls'[i].id /\ calls[j].pc = "fetching")
              => calls'[i].expired = ClaimedExpired
    ]_vars

(***************************************************************************)
(* C22: once an init has completed the identity bootstrap, initialized     *)
(* stays true for as long as the client lives, and every init that starts  *)
(* afterwards (it read initialized = true when it started) does no         *)
(* identity work: the step in which it ends leaves context.userId as it    *)
(* was and writes neither the application user id nor the anonymous id to  *)
(* storage.                                                                *)
(***************************************************************************)
C22_InitializedOnceNoMoreIdentityWork ==
  [][/\ (initialized /\ ctor'.outcome # "ok") => initialized'
     /\ \A k \in DOMAIN inits' :
          inits'[k].snap.initialized =>
            /\ context'.userId = context.userId
            /\ featureFlagUserId' = featureFlagUserId
            /\ lastSet'[APP_USER_ID] = "" /\ lastSet'[FEATURE_FLAG_USER_ID] = ""
            /\ store'[APP_USER_ID] = store[APP_USER_ID]
            /\ store'[FEATURE_FLAG_USER_ID] = store[FEATURE_FLAG_USER_ID]
    ]_vars

\* C22 witness: an init that started on an initialized client has ended; the context has
\* a user id, which the identity steps would have written to storage
C22_Witness ==
  \E k \in DOMAIN inits :
    /\ inits[k].snap.initialized /\ inits[k].snap.userId # ""
    /\ initialized /\ lastSet[APP_USER_ID] = ""

(***************************************************************************)
(* The next queryFeatureFlag for the same flag, called on the client as    *)
(* the step leaves it, with a fresh cache: its init finds the client       *)
(* initialized and its config in place and changes nothing, so the call    *)
(* is the evaluation of lines 278-320 in the state after the step.         *)
(***************************************************************************)
SameAnswerAgain ==
  LET first == done'.result
      again == QueryEvaluate(World', NewCall("one", done'.name, 0, 1)).r
  IN  /\ again.enabled = first.enabled
      /\ again.userId = first.userId
      /\ again.userIdType = first.userIdType

(***************************************************************************)
(* C23: evaluation is repeatable: a queryFeatureFlag call that follows a   *)
(* completed one for the same flag on the same client, context and config  *)
(* unchanged between them, returns the same enabled, userId and            *)
(* userIdType, for every flag and for every storage backend.               *)
(***************************************************************************)
C23_Repeatable ==
  [][(done'.kind \in {"one", "sub"} /\ done'.pc = "done") => SameAnswerAgain]_vars

\* the same on the hosts that have a Storage
C23_WithWorkingStorage ==
  [][(done'.kind \in {"one", "sub"} /\ done'.pc = "done" /\ storageAvailable)
       => SameAnswerAgain]_vars

====
